---- MODULE Spec2Model ----
(***************************************************************************)
(* Model of monitor_disk_space.py: the daily notification limiter, the     *)
(* Pushover sender, the per-drive check loop, main(), and the log parser.  *)
(***************************************************************************)
EXTENDS Integers, Sequences, FiniteSets, TLC

VARIABLES
    settings,   \* the settings file given to main()
    day,        \* date.today(), as a day number
    tracker,    \* contents of .notification_tracking.json
    pc,         \* position of the process: "idle", "check", "exited"
    idx,        \* index of the next drive of self.drives in check_and_notify
    drives,     \* self.drives after __init__
    events,     \* I/O performed by the current run, in order
    mainRet,    \* the value main() returned (-1: not returned yet)
    exitCode,   \* the exit status of the process (-1: still running)
    sentToday,  \* HTTP posts that returned a success status on the current day
    lastSend,   \* what the most recent send_pushover_notification call did
    lim,        \* limiter harness: start state, calls made, last results
    logLines,   \* the lines of one drive's log file
    written,    \* per log line: what _log_free_space was given, if it wrote it
    clock,      \* datetime.now()
    parsed,     \* result of the last _parse_log_file call
    formatted   \* a byte count and what format_bytes_multiple_units made of it

vars == <<settings, day, tracker, pc, idx, drives, events, mainRet, exitCode,
          sentToday, lastSend, lim, logLines, written, clock, parsed,
          formatted>>

runVars == <<settings, day, tracker, pc, idx, drives, events, mainRet,
             exitCode, sentToday, lastSend>>
logVars == <<logLines, written, clock, parsed>>

----------------------------------------------------------------------------
(* Bounds *)
MaxDay == 2
MaxCap == 2
MaxStored == 3
MaxSent == 3
MaxDrives == 2

None == -1          \* Python None / absent key, for integer-valued fields

Days == 0..MaxDay

----------------------------------------------------------------------------
(* The tracking file.  kind:                                               *)
(*   "absent"      the file does not exist                                 *)
(*   "unreadable"  open() raises OSError                                   *)
(*   "undecodable" not valid UTF-8: read raises UnicodeDecodeError         *)
(*   "badjson"     json.load raises JSONDecodeError                        *)
(*   "nonobject"   valid JSON that is not an object (list, number, ...)    *)
(*   "obj"         a JSON object; date/count are None when the key is      *)
(*                 missing                                                 *)
TrackerFile(k, d, c) == [kind |-> k, date |-> d, count |-> c]

CorruptKinds == {"unreadable", "undecodable", "badjson", "nonobject"}

TrackerStates ==
    {TrackerFile(k, None, None) : k \in {"absent"} \cup CorruptKinds}
    \cup {TrackerFile("obj", d, c) : d \in Days \cup {None},
                                     c \in (0..MaxStored) \cup {None}}

Returned(v) == [exc |-> "none", val |-> v]
Raised(e) == [exc |-> e, val |-> None]

\* tracking_data.get("count", 0)
GetCount(tr) == IF tr.count = None THEN 0 ELSE tr.count

get_notification_count_today(tr, today) ==
    CASE tr.kind = "absent" -> Returned(0)
      [] tr.kind = "unreadable" -> Raised("OSError")
      [] tr.kind = "undecodable" -> Raised("UnicodeDecodeError")
      [] tr.kind = "badjson" -> Returned(0)
      [] tr.kind = "nonobject" -> Raised("AttributeError")
      [] tr.kind = "obj" ->
            IF tr.date = today THEN Returned(GetCount(tr)) ELSE Returned(0)

\* Mutant: the count of an earlier day is carried into today.
increment_notification_count_no_reset(tr, today) ==
    CASE tr.kind = "absent" -> TrackerFile("obj", today, 1)
      [] tr.kind \in CorruptKinds -> tr
      [] tr.kind = "obj" -> TrackerFile("obj", today, GetCount(tr) + 1)

\* The whole body is inside try/except Exception: a file that cannot be
\* loaded as a JSON object leaves the file as it was.
increment_notification_count(tr, today) ==
    CASE tr.kind = "absent" -> TrackerFile("obj", today, 1)
      [] tr.kind \in CorruptKinds -> tr
      [] tr.kind = "obj" ->
            IF tr.date # today
            THEN TrackerFile("obj", today, 1)
            ELSE TrackerFile("obj", today, GetCount(tr) + 1)

----------------------------------------------------------------------------
(* send_pushover_notification.  http is the outcome of requests.post +     *)
(* raise_for_status: "ok", "timeout" or "status_error".                    *)
HttpOutcomes == {"ok", "timeout", "status_error"}

NoSend == [called |-> FALSE, max |-> None, before |-> TrackerFile("absent", None, None),
           after |-> TrackerFile("absent", None, None), today |-> 0,
           http |-> "none", attempted |-> FALSE, recorded |-> FALSE,
           ret |-> FALSE, exc |-> "none"]

\* Mutant: the limit test is count > max instead of count >= max.
send_pushover_notification_gt(max, tr, today, http) ==
    LET cnt == get_notification_count_today(tr, today)
        base == [called |-> TRUE, max |-> max, before |-> tr, after |-> tr,
                 today |-> today, http |-> "none", attempted |-> FALSE,
                 recorded |-> FALSE, ret |-> FALSE, exc |-> "none"]
    IN  IF max # None /\ cnt.exc # "none"
        THEN [base EXCEPT !.exc = cnt.exc]
        ELSE IF max # None /\ cnt.val > max
        THEN base
        ELSE IF http # "ok"
        THEN [base EXCEPT !.http = http, !.attempted = TRUE]
        ELSE IF max # None
        THEN [base EXCEPT !.http = http, !.attempted = TRUE, !.ret = TRUE,
                          !.recorded = TRUE,
                          !.after = increment_notification_count(tr, today)]
        ELSE [base EXCEPT !.http = http, !.attempted = TRUE, !.ret = TRUE]

\* Mutant: the count is incremented before the post, so failed attempts are
\* counted too.
send_pushover_notification_counts_attempts(max, tr, today, http) ==
    LET cnt == get_notification_count_today(tr, today)
        base == [called |-> TRUE, max |-> max, before |-> tr, after |-> tr,
                 today |-> today, http |-> "none", attempted |-> FALSE,
                 recorded |-> FALSE, ret |-> FALSE, exc |-> "none"]
    IN  IF max # None /\ cnt.exc # "none"
        THEN [base EXCEPT !.exc = cnt.exc]
        ELSE IF max # None /\ cnt.val >= max
        THEN base
        ELSE IF max # None
        THEN [base EXCEPT !.http = http, !.attempted = TRUE,
                          !.ret = (http = "ok"), !.recorded = TRUE,
                          !.after = increment_notification_count(tr, today)]
        ELSE [base EXCEPT !.http = http, !.attempted = TRUE,
                          !.ret = (http = "ok")]

send_pushover_notification(max, tr, today, http) ==
    LET cnt == get_notification_count_today(tr, today)
        base == [called |-> TRUE, max |-> max, before |-> tr, after |-> tr,
                 today |-> today, http |-> "none", attempted |-> FALSE,
                 recorded |-> FALSE, ret |-> FALSE, exc |-> "none"]
    IN  IF max # None /\ cnt.exc # "none"
        THEN [base EXCEPT !.exc = cnt.exc]
        ELSE IF max # None /\ cnt.val >= max
        THEN base
        ELSE IF http # "ok"
        THEN [base EXCEPT !.http = http, !.attempted = TRUE]
        ELSE IF max # None
        THEN [base EXCEPT !.http = http, !.attempted = TRUE, !.ret = TRUE,
                          !.recorded = TRUE,
                          !.after = increment_notification_count(tr, today)]
        ELSE [base EXCEPT !.http = http, !.attempted = TRUE, !.ret = TRUE]

----------------------------------------------------------------------------
(* The settings file and DiskSpaceMonitor.__init__.                        *)
(* A size string is modelled after strip().upper(): text "num" is a        *)
(* decimal number given in tenths, "garbage" does not start with a number, *)
(* "empty" is the empty string or a missing key.                           *)
SizeStr(t, n, u) == [text |-> t, tenths |-> n, unit |-> u]

\* The units the regular expression ([KMGT]?B?) lets through.
RegexUnits == {"", "B", "K", "M", "G", "T", "KB", "MB", "GB", "TB"}

UnitMultiplier(unit) ==
    CASE unit \in {"", "B"} -> 1
      [] unit = "KB" -> 1024
      [] unit = "MB" -> 1024 * 1024
      [] unit = "GB" -> 1024 * 1024 * 1024
      [] unit = "TB" -> 1024 * 1024 * 1024 * 1024

parse_size(sz) ==
    IF sz.text # "num" \/ sz.unit \notin RegexUnits
    THEN Raised("ValueError")
    ELSE IF sz.unit \in {"K", "M", "G", "T"}
    THEN Raised("ValueError")
    ELSE Returned((sz.tenths * UnitMultiplier(sz.unit)) \div 10)

\* One element of the "drives" list.
DriveCfg(isDict, hasPath, sz) == [dict |-> isDict, path |-> hasPath, min |-> sz]

GoodDrive == DriveCfg(TRUE, TRUE, SizeStr("num", 10, "KB"))

BadDrives ==
    { DriveCfg(FALSE, FALSE, SizeStr("empty", 0, "")),
      DriveCfg(TRUE, FALSE, SizeStr("num", 10, "KB")),
      DriveCfg(TRUE, TRUE, SizeStr("empty", 0, "")),
      DriveCfg(TRUE, TRUE, SizeStr("garbage", 0, "")),
      DriveCfg(TRUE, TRUE, SizeStr("num", 100, "XB")),
      DriveCfg(TRUE, TRUE, SizeStr("num", 100, "K")) }

\* The result of converting one drive entry, as the loop body does.
ParseDrive(dc) ==
    IF ~dc.dict THEN Raised("ValueError")
    ELSE IF ~dc.path THEN Raised("ValueError")
    ELSE IF dc.min.text = "empty" THEN Raised("ValueError")
    ELSE parse_size(dc.min)

parse_drives_config(dcs) ==
    IF \E i \in 1..Len(dcs) : ParseDrive(dcs[i]).exc # "none"
    THEN [exc |-> "ValueError", val |-> <<>>]
    ELSE [exc |-> "none",
          val |-> [i \in 1..Len(dcs) |->
                     [path |-> i, minimum_bytes |-> ParseDrive(dcs[i]).val]]]

SettingsFile(f, tok, usr, m, dcs) ==
    [file |-> f, token |-> tok, user |-> usr, max |-> m, drives |-> dcs]

load_settings(sf) ==
    CASE sf.file = "missing" -> "FileNotFoundError"
      [] sf.file = "badjson" -> "JSONDecodeError"
      [] OTHER -> "none"

\* DiskSpaceMonitor.__init__: the exception it raises, "none" if it returns.
MonitorInit(sf) ==
    IF sf.file = "nonobject" THEN "AttributeError"
    ELSE IF parse_drives_config(sf.drives).exc # "none" THEN "ValueError"
    ELSE IF ~sf.token \/ ~sf.user THEN "ValueError"
    ELSE IF Len(sf.drives) = 0 THEN "ValueError"
    ELSE "none"

\* main(): every except clause returns 1; the fall-through returns 0.
MainReturn(exc) == IF exc = "none" THEN 0 ELSE 1

\* The script's last line calls main() and drops its result, so the
\* interpreter ends with status 0 whatever main() returned.
ProcessExit(ret) == 0

Caps == {None} \cup (0..MaxCap)

GoodDriveLists == {[i \in 1..n |-> GoodDrive] : n \in 1..MaxDrives}

BadDriveLists ==
    {<<>>} \cup {<<b>> : b \in BadDrives} \cup {<<GoodDrive, b>> : b \in BadDrives}

ValidSettings ==
    {SettingsFile("json", TRUE, TRUE, m, ds) : m \in Caps, ds \in GoodDriveLists}

FatalSettings ==
    {SettingsFile(f, TRUE, TRUE, None, <<GoodDrive>>) :
        f \in {"missing", "badjson", "nonobject"}}
    \cup {SettingsFile("json", FALSE, TRUE, None, <<GoodDrive>>),
          SettingsFile("json", TRUE, FALSE, None, <<GoodDrive>>),
          SettingsFile("json", FALSE, FALSE, None, <<GoodDrive>>)}
    \cup {SettingsFile("json", TRUE, TRUE, None, ds) : ds \in BadDriveLists}

StartupError(sf) ==
    IF load_settings(sf) # "none" THEN load_settings(sf) ELSE MonitorInit(sf)

----------------------------------------------------------------------------
(* The per-drive log file.  A line is the sequence of its fields between   *)
(* single spaces (an empty field stands for two spaces in a row, or for    *)
(* leading or trailing white space).  A field is                           *)
(*   "num"   a decimal digit string, which int() accepts                   *)
(*   "iso"   a timestamp as isoformat() writes it; it contains "T"         *)
(*   "tsbad" text that contains "T" or starts YYYY-MM-DD but that          *)
(*           fromisoformat() rejects                                       *)
(*   "junk"  other text, "human" the opening of "(95 GB 201 MB)",          *)
(*   "empty" the empty field.                                              *)
Field(k, ds, sec, frac) == [k |-> k, digits |-> ds, sec |-> sec, frac |-> frac]
Num(ds) == Field("num", ds, 0, None)
Iso(sec, frac) == Field("iso", <<>>, sec, frac)
Word(k) == Field(k, <<>>, 0, None)

DateTime(sec, micro) == [sec |-> sec, micro |-> micro]

\* datetime.isoformat(): the fraction is left out when microsecond = 0.
isoformat(dt) == Iso(dt.sec, IF dt.micro = 0 THEN None ELSE dt.micro)

\* Mutant: a timestamp without a fraction of a second is rejected.
fromisoformat_needs_fraction(f) ==
    IF f.k = "iso" /\ f.frac # None
    THEN Returned(DateTime(f.sec, f.frac))
    ELSE Raised("ValueError")

\* datetime.fromisoformat(): ValueError unless the text is a timestamp.
fromisoformat(f) ==
    IF f.k = "iso"
    THEN Returned(DateTime(f.sec, IF f.frac = None THEN 0 ELSE f.frac))
    ELSE Raised("ValueError")

RECURSIVE IntToStr(_)
\* f"{free_space}"
IntToStr(n) == IF n < 10 THEN <<n>> ELSE IntToStr(n \div 10) \o <<n % 10>>

RECURSIVE StrToInt(_)
StrToInt(ds) ==
    IF ds = <<>> THEN 0
    ELSE 10 * StrToInt(SubSeq(ds, 1, Len(ds) - 1)) + ds[Len(ds)]

\* int(text): ValueError unless the text is a digit string.
ParseInt(f) ==
    IF f.k = "num" THEN Returned(StrToInt(f.digits)) ELSE Raised("ValueError")

\* "T" in first_part or (len >= 10 and first_part[4] == "-" and [7] == "-")
LooksLikeTimestamp(f) == f.k \in {"iso", "tsbad"}

RECURSIVE Strip(_)
\* line.strip()
Strip(toks) ==
    IF toks = <<>> THEN <<>>
    ELSE IF Head(toks).k = "empty" THEN Strip(Tail(toks))
    ELSE IF toks[Len(toks)].k = "empty" THEN Strip(SubSeq(toks, 1, Len(toks) - 1))
    ELSE toks

\* line.split(" ", 2): at most three parts, the third being the remainder.
Split2(toks) == IF Len(toks) > 3 THEN SubSeq(toks, 1, 3) ELSE toks

\* Mutant: the first pass counts only lines that hold nothing but the
\* integer.
CountsAsOld_bare_only(line) ==
    LET parts == Split2(Strip(line))
    IN  /\ Strip(line) # <<>>
        /\ Len(parts) = 1
        /\ ~LooksLikeTimestamp(parts[1])
        /\ ParseInt(parts[1]).exc = "none"

\* First pass: whether the line adds to old_format_count.
CountsAsOld(line) ==
    LET parts == Split2(Strip(line))
    IN  /\ Strip(line) # <<>>
        /\ ~LooksLikeTimestamp(parts[1])
        /\ ParseInt(parts[1]).exc = "none"

RECURSIVE CountOld(_)
CountOld(lines) ==
    IF lines = <<>> THEN 0
    ELSE CountOld(Tail(lines)) + (IF CountsAsOld(Head(lines)) THEN 1 ELSE 0)

\* A data point.  est = TRUE: the timestamp is datetime.now() minus `hours`
\* hours; est = FALSE: it is the datetime t.  line is the number of the line
\* it came from.
Point(est, hours, t, free, line) ==
    [est |-> est, hours |-> hours, t |-> t, free |-> free, line |-> line]

\* Second pass, one line: "current", "legacy" or "drop".
ClassifyLine(line) ==
    LET parts == Split2(Strip(line))
    IN  IF Strip(line) = <<>> THEN "drop"
        ELSE IF Len(parts) >= 2
        THEN IF /\ LooksLikeTimestamp(parts[1])
                /\ fromisoformat(parts[1]).exc = "none"
                /\ ParseInt(parts[2]).exc = "none"
             THEN "current"
             ELSE IF ParseInt(parts[1]).exc = "none" THEN "legacy" ELSE "drop"
        ELSE IF ParseInt(parts[1]).exc = "none" THEN "legacy" ELSE "drop"

RECURSIVE ParseLines(_, _, _, _, _)
\* Second pass: the loop over lines from line i on, with the running
\* old_format_index and the data_points collected so far.
ParseLines(lines, i, old_format_count, old_format_index, data_points) ==
    IF i > Len(lines) THEN data_points
    ELSE LET parts == Split2(Strip(lines[i]))
             cls == ClassifyLine(lines[i])
         IN  CASE cls = "current" ->
                    ParseLines(lines, i + 1, old_format_count, old_format_index,
                        Append(data_points,
                               Point(FALSE, 0, fromisoformat(parts[1]).val,
                                     ParseInt(parts[2]).val, i)))
               [] cls = "legacy" ->
                    ParseLines(lines, i + 1, old_format_count,
                        old_format_index + 1,
                        Append(data_points,
                               Point(TRUE, old_format_count - old_format_index,
                                     DateTime(0, 0), ParseInt(parts[1]).val, i)))
               [] OTHER ->
                    ParseLines(lines, i + 1, old_format_count, old_format_index,
                               data_points)

\* _parse_log_file on a file that exists and decodes as text.
parse_log_file(lines) ==
    [of |-> lines, done |-> TRUE, old_format_count |-> CountOld(lines),
     points |-> ParseLines(lines, 1, CountOld(lines), 0, <<>>)]

\* The line _log_free_space writes.
log_line(now, free_space) ==
    <<isoformat(now), Num(IntToStr(free_space)), Word("human")>>

----------------------------------------------------------------------------
(* format_bytes_multiple_units.  A byte count is held in two limbs,       *)
(* hi * 2^20 + lo with 0 <= lo < 2^20, so that counts of a terabyte and    *)
(* more are exact.                                                         *)
Limb == 1024 * 1024
Big(hi, lo) == [hi |-> hi, lo |-> lo]

\* units = [("TB", 1024**4), ("GB", 1024**3), ("MB", 1024**2), ("KB", 1024),
\*          ("B", 1)]
Unit(name, size) == [name |-> name, size |-> size]
Units == << Unit("TB", Big(1024 * 1024, 0)), Unit("GB", Big(1024, 0)),
            Unit("MB", Big(1, 0)), Unit("KB", Big(0, 1024)),
            Unit("B", Big(0, 1)) >>

\* Mutant: the test is remaining > unit_size.
BigGT(a, b) == a.hi > b.hi \/ (a.hi = b.hi /\ a.lo > b.lo)

\* remaining >= unit_size
BigGE(a, b) == a.hi > b.hi \/ (a.hi = b.hi /\ a.lo >= b.lo)

\* remaining // unit_size, for a unit size that is a power of two: either
\* a multiple of 2^20 (lo = 0) or a divisor of 2^20 (hi = 0).
BigDiv(a, u) ==
    IF u.hi > 0 THEN a.hi \div u.hi
    ELSE a.hi * (Limb \div u.lo) + a.lo \div u.lo

\* remaining % unit_size, for the same unit sizes.
BigMod(a, u) ==
    IF u.hi > 0 THEN Big(a.hi % u.hi, a.lo) ELSE Big(0, a.lo % u.lo)

\* f"{value} {unit_name}"
Part(value, unit_name) == [value |-> value, unit |-> unit_name]

RECURSIVE FormatFrom(_, _, _)
\* The loop over units from unit number i on.
FormatFrom(i, remaining, parts) ==
    IF i > Len(Units) THEN parts
    ELSE IF BigGE(remaining, Units[i].size)
    THEN FormatFrom(i + 1, BigMod(remaining, Units[i].size),
                    Append(parts, Part(BigDiv(remaining, Units[i].size),
                                       Units[i].name)))
    ELSE FormatFrom(i + 1, remaining, parts)

\* The parts that " ".join(parts) puts into the string.
format_bytes_multiple_units(bytes) ==
    IF bytes = Big(0, 0) THEN <<Part(0, "B")>>
    ELSE IF FormatFrom(1, bytes, <<>>) # <<>> THEN FormatFrom(1, bytes, <<>>)
    ELSE <<Part(0, "B")>>

NoFormat == [bytes |-> Big(0, 0), parts |-> <<>>, done |-> FALSE]

----------------------------------------------------------------------------
(* check_and_notify: one iteration of the loop over self.drives.           *)

\* shutil.disk_usage as seen by get_disk_space: "error" when it raises
\* (get_disk_space returns None), else the sample.  A file system may
\* report total = 0.
DiskError == [ok |-> FALSE, total |-> 0, free |-> 0]
DiskSample(t, f) == [ok |-> TRUE, total |-> t, free |-> f]
DiskOutcomes == {DiskError, DiskSample(0, 0), DiskSample(4000, 100),
                 DiskSample(4000, 3000)}

\* _generate_graph: "no_matplotlib" (ImportError, returns), "too_few"
\* (fewer than 2 points, returns), "saved", "save_failed" (savefig raised,
\* caught), "raised" (sorting or plotting raised outside any try).
GraphOutcomes == {"no_matplotlib", "too_few", "saved", "save_failed", "raised"}

\* One entry of the run's record of I/O.  A "query" entry says whether
\* get_disk_space returned a sample (ok) and whether that sample is below
\* the drive's threshold; a "notify" entry is a call of
\* send_pushover_notification and carries the priority it was given.
Ev(op, d) == [op |-> op, d |-> d, ok |-> TRUE, below |-> FALSE, priority |-> None]
Query(d, min, disk) ==
    [Ev("query", d) EXCEPT !.ok = disk.ok, !.below = disk.ok /\ disk.free < min]

\* priority=1 in the call at the end of the loop body
HighPriority == 1
Notify(d) == [Ev("notify", d) EXCEPT !.priority = HighPriority]

\* The exception _generate_graph lets through, "none" when it returns.
generate_graph(graph) == IF graph = "raised" THEN "Exception" ELSE "none"

\* One loop iteration for drive number d with threshold min: the I/O it
\* performs, the exception that leaves it, and the send it made.
\* _log_free_space catches its own write failure and savefig's failure is
\* caught too, so neither outcome changes what the iteration does next.
check_drive(d, min, disk, graph, http, max, tr, today) ==
    LET quiet == [ev |-> <<Query(d, min, disk)>>, exc |-> "none", send |-> NoSend]
        logged == <<Query(d, min, disk), Ev("append", d), Ev("graph", d)>>
        send == send_pushover_notification(max, tr, today, http)
    IN  IF ~disk.ok THEN quiet
        ELSE IF disk.total = 0 THEN [quiet EXCEPT !.exc = "ZeroDivisionError"]
        ELSE IF generate_graph(graph) # "none"
        THEN [ev |-> logged, exc |-> generate_graph(graph), send |-> NoSend]
        ELSE IF ~(disk.free < min)
        THEN [ev |-> Append(logged, Ev("compare", d)), exc |-> "none",
              send |-> NoSend]
        ELSE [ev |-> logged \o <<Ev("compare", d), Notify(d)>> \o
                     (IF send.attempted THEN <<Ev("post", d)>> ELSE <<>>),
              exc |-> send.exc, send |-> send]

----------------------------------------------------------------------------
(* The process.                                                            *)

\* main() up to the first loop iteration: load_settings and __init__.
Launch ==
    /\ pc \in {"idle", "exited"}
    /\ events' = <<>>
    /\ lastSend' = NoSend
    /\ IF StartupError(settings) # "none"
       THEN /\ pc' = "exited"
            /\ mainRet' = MainReturn(StartupError(settings))
            /\ exitCode' = ProcessExit(MainReturn(StartupError(settings)))
            /\ drives' = <<>>
            /\ idx' = 0
       ELSE /\ pc' = "check"
            /\ mainRet' = None
            /\ exitCode' = None
            /\ drives' = parse_drives_config(settings.drives).val
            /\ idx' = 1
    /\ UNCHANGED <<settings, day, tracker, sentToday, lim, logVars, formatted>>

\* One iteration of the for loop of check_and_notify, with whatever the
\* file system, matplotlib and the Pushover endpoint answer.
CheckDrive ==
    /\ pc = "check"
    /\ idx <= Len(drives)
    /\ \E disk \in DiskOutcomes, graph \in GraphOutcomes, http \in HttpOutcomes :
         LET r == check_drive(idx, drives[idx].minimum_bytes, disk, graph, http,
                              settings.max, tracker, day)
             delivered == r.send.called /\ r.send.http = "ok"
         IN  /\ delivered => sentToday < MaxSent
             /\ events' = events \o r.ev
             /\ tracker' = IF r.send.called THEN r.send.after ELSE tracker
             /\ lastSend' = IF r.send.called THEN r.send ELSE lastSend
             /\ sentToday' = IF delivered THEN sentToday + 1 ELSE sentToday
             /\ IF r.exc # "none"
                THEN /\ pc' = "exited"
                     /\ mainRet' = MainReturn(r.exc)
                     /\ exitCode' = ProcessExit(MainReturn(r.exc))
                     /\ idx' = idx
                ELSE /\ idx' = idx + 1
                     /\ UNCHANGED <<pc, mainRet, exitCode>>
    /\ UNCHANGED <<settings, day, drives, lim, logVars, formatted>>

\* The loop is exhausted: run() prints "Check complete." and main returns 0.
Finish ==
    /\ pc = "check"
    /\ idx > Len(drives)
    /\ pc' = "exited"
    /\ mainRet' = MainReturn("none")
    /\ exitCode' = ProcessExit(MainReturn("none"))
    /\ UNCHANGED <<settings, day, tracker, idx, drives, events, sentToday,
                   lastSend, lim, logVars, formatted>>

\* The calendar day changes (between runs or between two drives of a run).
Midnight ==
    /\ day < MaxDay
    /\ day' = day + 1
    /\ sentToday' = 0
    /\ UNCHANGED <<settings, tracker, pc, idx, drives, events, mainRet,
                   exitCode, lastSend, lim, logVars, formatted>>

\* lim: the tracker at the start of the current day (start, on day day0),
\* the number n of _increment_notification_count calls made since, and
\* the last such call (before, at, after).
LimiterStart(tr, d) ==
    [start |-> tr, day0 |-> d, n |-> 0, called |-> FALSE, before |-> tr,
     at |-> d, after |-> tr]

NoLimiterCall == LimiterStart(TrackerFile("absent", None, None), 0)
EmptyParse == [of |-> <<>>, done |-> FALSE, old_format_count |-> 0, points |-> <<>>]

Init ==
    /\ settings \in ValidSettings \cup FatalSettings
    /\ day = 1
    /\ tracker \in {t \in TrackerStates : t.date <= day}
    /\ pc = "idle"
    /\ idx = 0
    /\ drives = <<>>
    /\ events = <<>>
    /\ mainRet = None
    /\ exitCode = None
    /\ sentToday = 0
    /\ lastSend = NoSend
    /\ lim = NoLimiterCall
    /\ logLines = <<>>
    /\ written = <<>>
    /\ clock = DateTime(0, 0)
    /\ parsed = EmptyParse
    /\ formatted = NoFormat

Next == Launch \/ CheckDrive \/ Finish \/ Midnight

Spec == Init /\ [][Next]_vars

----------------------------------------------------------------------------
(* The limiter on its own: _increment_notification_count called any number *)
(* of times from any tracker file, with the date changing in between.      *)
MaxRecords == 3

RecordSend ==
    /\ lim.n < MaxRecords
    /\ tracker' = increment_notification_count(tracker, day)
    /\ lim' = [lim EXCEPT !.n = lim.n + 1, !.called = TRUE, !.before = tracker,
                          !.at = day,
                          !.after = increment_notification_count(tracker, day)]
    /\ UNCHANGED <<settings, day, pc, idx, drives, events, mainRet, exitCode,
                   sentToday, lastSend, logVars, formatted>>

DateChange ==
    /\ day < MaxDay
    /\ day' = day + 1
    /\ lim' = [LimiterStart(tracker, day + 1) EXCEPT
                   !.called = lim.called, !.before = lim.before,
                   !.at = lim.at, !.after = lim.after]
    /\ UNCHANGED <<settings, tracker, pc, idx, drives, events, mainRet,
                   exitCode, sentToday, lastSend, logVars, formatted>>

InitLimiter ==
    /\ settings = SettingsFile("json", TRUE, TRUE, None, <<GoodDrive>>)
    /\ day = 1
    /\ tracker \in {t \in TrackerStates : t.date <= day}
    /\ pc = "idle"
    /\ idx = 0
    /\ drives = <<>>
    /\ events = <<>>
    /\ mainRet = None
    /\ exitCode = None
    /\ sentToday = 0
    /\ lastSend = NoSend
    /\ lim = LimiterStart(tracker, day)
    /\ logLines = <<>>
    /\ written = <<>>
    /\ clock = DateTime(0, 0)
    /\ parsed = EmptyParse
    /\ formatted = NoFormat

NextLimiter == RecordSend \/ DateChange

SpecLimiter == InitLimiter /\ [][NextLimiter]_vars

----------------------------------------------------------------------------
(* The log on its own: a file left by earlier versions and runs, to which  *)
(* _log_free_space appends and which _parse_log_file reads.                *)
MaxOldLines == 3
MaxAppends == 1

Micros == {0, 5}
FreeSpaces == {120}

OldLines ==
    { <<>>,
      <<Word("empty"), Num(<<4, 2>>)>>,
      <<Num(<<7>>)>>,
      <<Num(<<4, 2>>), Word("human")>>,
      <<Num(<<0, 7>>), Word("junk")>>,
      <<Iso(0, None), Num(<<7>>), Word("human")>>,
      <<Iso(0, 5), Word("junk")>>,
      <<Word("tsbad"), Num(<<7>>)>> }

OldFiles == UNION {[1..n -> OldLines] : n \in 0..MaxOldLines}

NoWrite == [by |-> "old", now |-> DateTime(0, 0), free |-> 0]
Wrote(now, free) == [by |-> "append", now |-> now, free |-> free]

\* _log_free_space: appends one line stamped datetime.now(), later than
\* every earlier stamp; when the write raises, it prints a warning and the
\* file is as before.
LogFreeSpace ==
    /\ clock.sec < MaxAppends
    /\ \E micro \in Micros, free \in FreeSpaces, ok \in BOOLEAN :
         /\ clock' = DateTime(clock.sec + 1, micro)
         /\ logLines' = IF ok THEN Append(logLines, log_line(clock', free))
                        ELSE logLines
         /\ written' = IF ok THEN Append(written, Wrote(clock', free))
                       ELSE written
    /\ UNCHANGED <<runVars, lim, parsed, formatted>>

\* _generate_graph reads the file back.
ParseLog ==
    /\ parsed' = parse_log_file(logLines)
    /\ UNCHANGED <<runVars, lim, logLines, written, clock, formatted>>

InitLog ==
    /\ settings = SettingsFile("json", TRUE, TRUE, None, <<GoodDrive>>)
    /\ day = 1
    /\ tracker = TrackerFile("absent", None, None)
    /\ pc = "idle"
    /\ idx = 0
    /\ drives = <<>>
    /\ events = <<>>
    /\ mainRet = None
    /\ exitCode = None
    /\ sentToday = 0
    /\ lastSend = NoSend
    /\ lim = NoLimiterCall
    /\ logLines \in OldFiles
    /\ written = [i \in 1..Len(logLines) |-> NoWrite]
    /\ clock = DateTime(0, 0)
    /\ parsed = EmptyParse
    /\ formatted = NoFormat

NextLog == LogFreeSpace \/ ParseLog

SpecLog == InitLog /\ [][NextLog]_vars

----------------------------------------------------------------------------
(* Claims about the daily limiter and the sender.                          *)

\* count_today() as the most recent send saw it
SendCount == get_notification_count_today(lastSend.before, lastSend.today)

\* C1: with max_push_notifications_per_day = M, the number of successful
\* sends on one calendar day never exceeds M, whatever the tracker file
\* held (absent, stale, corrupt) and however the sends went.
C1_DailyCap ==
    settings.max # None => sentToday <= settings.max

C2_WitnessUnset ==
    /\ lastSend.called /\ lastSend.max = None /\ lastSend.attempted
    /\ lastSend.before.kind = "obj" /\ lastSend.before.date = lastSend.today
    /\ lastSend.before.count = MaxStored

\* C3: the stored count never spans a day boundary: for a tracker whose
\* stored date is not today count_today() is 0 whatever the stored count,
\* and record_send() then leaves {date: today, count: 1}.
C3_NoDaySpan ==
    /\ (tracker.kind = "obj" /\ tracker.date # day)
          => get_notification_count_today(tracker, day) = Returned(0)
    /\ (lim.called /\ lim.before.kind = "obj" /\ lim.before.date # lim.at)
          => lim.after = TrackerFile("obj", lim.at, 1)

\* C3 witness: record_send() on a file of an earlier day holding a count
\* above 1.
C3_Witness ==
    /\ lim.called /\ lim.before.kind = "obj"
    /\ lim.before.date # None /\ lim.before.date < lim.at
    /\ lim.before.count > 1
    /\ lim.after = TrackerFile("obj", lim.at, 1)
    /\ tracker.kind = "obj" /\ tracker.date # day /\ tracker.count > 0

\* C4: from any tracker for which count_today() is 0 (absent, earlier
\* date, corrupt), n calls of record_send() on one day give
\* count_today() = n.
C4_CountsSends ==
    get_notification_count_today(lim.start, lim.day0) = Returned(0)
        => get_notification_count_today(tracker, day) = Returned(lim.n)

C5_WitnessUnset ==
    /\ lastSend.called /\ lastSend.http = "ok" /\ lastSend.ret
    /\ lastSend.max = None /\ ~lastSend.recorded
    /\ lastSend.before.kind = "absent" /\ lastSend.after = lastSend.before

\* C6: an absent, unreadable or corrupt tracker file counts as zero sent
\* today: count_today() returns 0 without raising and the send goes on.
C6_CorruptIsZero ==
    (lastSend.called /\ lastSend.max # None
       /\ lastSend.before.kind \in {"absent"} \cup CorruptKinds)
    => /\ SendCount = Returned(0)
       /\ lastSend.exc = "none"
       /\ lastSend.max > 0 => lastSend.attempted

----------------------------------------------------------------------------
(* Claims about the run.                                                   *)

Queried == SelectSeq(events, LAMBDA e : e.op = "query")

\* C7: with a valid configuration every configured drive is queried, in
\* configuration order, whatever happened on earlier drives.
C7_AllDrivesQueried ==
    /\ \A i \in 1..Len(Queried) : Queried[i].d = i
    /\ (pc = "exited" /\ StartupError(settings) = "none")
          => Len(Queried) = Len(drives)

\* C8: the exit code is non-zero whenever the configuration is fatal, and
\* then nothing was queried, logged or sent; it is 0 on a completed check.
C8_ExitCodes ==
    pc = "exited" =>
        /\ StartupError(settings) # "none" => (exitCode # 0 /\ events = <<>>)
        /\ (StartupError(settings) = "none" /\ idx > Len(drives))
              => exitCode = 0

\* What the run did for drive d, as the sequence of operation names.
StepsOf(d) ==
    LET mine == SelectSeq(events, LAMBDA e : e.d = d)
    IN  [i \in 1..Len(mine) |-> mine[i].op]

Sampled == {i \in 1..Len(events) : events[i].op = "query" /\ events[i].ok}
BelowThreshold == {i \in Sampled : events[i].below}
Notified == {i \in 1..Len(events) : events[i].op = "notify"}
Posted == {i \in 1..Len(events) : events[i].op = "post"}

\* C11: for each drive whose query succeeds the run appends to the log,
\* then renders the chart, then compares with the threshold; the notifier
\* is called, with high priority, iff free < minimum; at most one post is
\* made per drive, so a run never posts more often than it has drives
\* below threshold.
C11_StepOrder ==
    /\ \A i \in Sampled :
         LET d == events[i].d
             steps == StepsOf(d)
         IN  /\ Len(steps) >= 4
             /\ SubSeq(steps, 1, 4) = <<"query", "append", "graph", "compare">>
             /\ events[i].below <=> (\E j \in Notified : events[j].d = d)
             /\ Cardinality({j \in Posted : events[j].d = d}) <= 1
    /\ \A j \in Notified : events[j].priority = 1
    /\ \A j \in Posted : \E n \in Notified : n < j /\ events[n].d = events[j].d
    /\ Cardinality(Posted) <= Cardinality(BelowThreshold)

----------------------------------------------------------------------------
(* Claims about the log parser.                                            *)

\* The lines of the file read that are legacy lines: after stripping, the
\* first field is a bare integer.
FirstField(line) == Strip(line)[1]
IsLegacyLine(line) == Strip(line) # <<>> /\ FirstField(line).k = "num"
LegacyLineNos == {i \in 1..Len(parsed.of) : IsLegacyLine(parsed.of[i])}

LegacyPoints == SelectSeq(parsed.points, LAMBDA e : e.est)
PointLines == [i \in 1..Len(parsed.points) |-> parsed.points[i].line]

\* C9: with k legacy lines interleaved with other lines, the legacy lines
\* get the times now - k h, ..., now - 1 h in file order, and the counting
\* pass counts as many legacy lines as the second pass emits.
C9_LegacyBackfill ==
    parsed.done =>
        LET k == Cardinality(LegacyLineNos)
        IN  /\ parsed.old_format_count = k
            /\ Len(LegacyPoints) = k
            /\ \A i \in 1..k :
                 /\ LegacyPoints[i].hours = k - i + 1
                 /\ LegacyPoints[i].line \in LegacyLineNos
            /\ \A i \in 1..(k - 1) :
                 /\ LegacyPoints[i].line < LegacyPoints[i + 1].line
                 /\ LegacyPoints[i].hours = LegacyPoints[i + 1].hours + 1

\* C9 witness: two legacy lines with a malformed line between them and a
\* current-format line after them, given the times now - 2 h and now - 1 h.
C9_Witness ==
    /\ parsed.done
    /\ LegacyLineNos = {1, 3}
    /\ Strip(parsed.of[2]) # <<>>
    /\ PointLines = <<1, 3, 4>>
    /\ ~parsed.points[3].est
    /\ parsed.points[1].hours = 2 /\ parsed.points[2].hours = 1

\* A line as the claim describes the two formats: a timestamp and an integer,
\* or a bare integer, each alone or followed by the parenthesised part.
HumanOrNothing(rest) == rest = <<>> \/ rest[1].k = "human"

WellFormedCurrent(line) ==
    LET f == Strip(line)
    IN  /\ Len(f) >= 2 /\ f[1].k = "iso" /\ f[2].k = "num"
        /\ HumanOrNothing(SubSeq(f, 3, Len(f)))

WellFormedLegacy(line) ==
    LET f == Strip(line)
    IN  /\ Len(f) >= 1 /\ f[1].k = "num"
        /\ HumanOrNothing(SubSeq(f, 2, Len(f)))

\* The free_bytes a line states.
StatedFree(line) ==
    LET f == Strip(line)
    IN  IF f[1].k = "num" THEN StrToInt(f[1].digits) ELSE StrToInt(f[2].digits)

\* The line numbers of the file read, in file order.
LineNos == [i \in 1..Len(parsed.of) |-> i]

\* Each line _log_free_space wrote is read back with the timestamp and the
\* free space it was given.
AppendsReadBack ==
    \A i \in 1..Len(parsed.of) :
        written[i].by = "append" =>
            \E j \in 1..Len(parsed.points) :
                /\ parsed.points[j].line = i
                /\ ~parsed.points[j].est
                /\ parsed.points[j].t = written[i].now
                /\ parsed.points[j].free = written[i].free

PointsStateTheirLines ==
    \A j \in 1..Len(parsed.points) :
        parsed.points[j].free = StatedFree(parsed.of[parsed.points[j].line])

\* C10: exactly one entry, with the line's free_bytes, for every well-formed
\* current-format line and every well-formed legacy line (bare integer, or
\* integer followed by a parenthesised part), none for blank or malformed
\* lines, and an appended line is read back as written.
C10_OneEntryPerWellFormedLine ==
    parsed.done =>
        /\ PointLines =
             SelectSeq(LineNos,
                       LAMBDA i : \/ WellFormedCurrent(parsed.of[i])
                                  \/ WellFormedLegacy(parsed.of[i]))
        /\ PointsStateTheirLines
        /\ AppendsReadBack

\* What the parser goes by: the first field is a timestamp and the second
\* an integer, or the first field is an integer; what follows is not looked
\* at.
AcceptedLine(line) ==
    LET f == Strip(line)
    IN  \/ Len(f) >= 2 /\ f[1].k = "iso" /\ f[2].k = "num"
        \/ Len(f) >= 1 /\ f[1].k = "num"

\* C10 as amended: exactly one entry, with the line's free_bytes, for every
\* line whose first field is a timestamp followed by an integer field or
\* whose first field is an integer, whatever follows on the line; none for
\* any other line; an appended line is read back as written.
C10_OneEntryPerAcceptedLine ==
    parsed.done =>
        /\ PointLines = SelectSeq(LineNos, LAMBDA i : AcceptedLine(parsed.of[i]))
        /\ PointsStateTheirLines
        /\ AppendsReadBack

\* C10 witness: a dropped line followed by a legacy line and by an appended
\* line whose timestamp has no fraction, both read back.
C10_Witness ==
    /\ parsed.done
    /\ Len(parsed.of) = MaxOldLines + 1
    /\ ~AcceptedLine(parsed.of[1]) /\ Strip(parsed.of[1]) # <<>>
    /\ WellFormedLegacy(parsed.of[2])
    /\ written[Len(parsed.of)].by = "append"
    /\ written[Len(parsed.of)].now.micro = 0
    /\ written[Len(parsed.of)].free > 9
    /\ PointLines = <<2, 3, 4>>

----------------------------------------------------------------------------
(* The formatter on its own, over byte counts from 0 to beyond a petabyte. *)
MaxTB == 2

Below1024 == {0, 1, 54, 1023}
TeraCounts == (0..MaxTB) \cup {1500}

ByteCounts ==
    {Big(tb * Limb + gb * 1024 + mb, kb * 1024 + b) :
        tb \in TeraCounts, gb \in Below1024, mb \in Below1024,
        kb \in Below1024, b \in Below1024}

FormatBytes ==
    /\ ~formatted.done
    /\ formatted' = [formatted EXCEPT
                        !.parts = format_bytes_multiple_units(formatted.bytes),
                        !.done = TRUE]
    /\ UNCHANGED <<runVars, lim, logVars>>

InitFormat ==
    /\ settings = SettingsFile("json", TRUE, TRUE, None, <<GoodDrive>>)
    /\ day = 1
    /\ tracker = TrackerFile("absent", None, None)
    /\ pc = "idle"
    /\ idx = 0
    /\ drives = <<>>
    /\ events = <<>>
    /\ mainRet = None
    /\ exitCode = None
    /\ sentToday = 0
    /\ lastSend = NoSend
    /\ lim = NoLimiterCall
    /\ logLines = <<>>
    /\ written = <<>>
    /\ clock = DateTime(0, 0)
    /\ parsed = EmptyParse
    /\ formatted \in {[NoFormat EXCEPT !.bytes = b] : b \in ByteCounts}

NextFormat == FormatBytes

SpecFormat == InitFormat /\ [][NextFormat]_vars

----------------------------------------------------------------------------
(* Claim about the formatter.                                              *)

\* Position of a unit in the descending order TB, GB, MB, KB, B.
UnitRank(name) ==
    CASE name = "TB" -> 1 [] name = "GB" -> 2 [] name = "MB" -> 3
      [] name = "KB" -> 4 [] name = "B" -> 5

RECURSIVE PartsHi(_)
\* The multiples of 2^20 bytes that the printed TB, GB and MB parts stand for.
PartsHi(parts) ==
    IF parts = <<>> THEN 0
    ELSE PartsHi(Tail(parts)) +
         (CASE Head(parts).unit = "TB" -> Head(parts).value * 1024 * 1024
            [] Head(parts).unit = "GB" -> Head(parts).value * 1024
            [] Head(parts).unit = "MB" -> Head(parts).value
            [] OTHER -> 0)

RECURSIVE PartsLo(_)
\* The bytes that the printed KB and B parts stand for.
PartsLo(parts) ==
    IF parts = <<>> THEN 0
    ELSE PartsLo(Tail(parts)) +
         (CASE Head(parts).unit = "KB" -> Head(parts).value * 1024
            [] Head(parts).unit = "B" -> Head(parts).value
            [] OTHER -> 0)

\* The sum of unit_value x printed_count, in limbs.
PartsTotal(parts) ==
    Big(PartsHi(parts) + PartsLo(parts) \div Limb, PartsLo(parts) % Limb)

\* C12: for every byte count b >= 0 the parts come in the order TB, GB, MB,
\* KB, B, their values times their units add up to b exactly, none is zero,
\* every part below TB is less than 1024, and b = 0 gives "0 B".
C12_ExactParts ==
    formatted.done =>
        LET parts == formatted.parts
            b == formatted.bytes
        IN  /\ \A i \in 1..(Len(parts) - 1) :
                 UnitRank(parts[i].unit) < UnitRank(parts[i + 1].unit)
            /\ PartsTotal(parts) = b
            /\ b # Big(0, 0) => \A i \in 1..Len(parts) : parts[i].value > 0
            /\ \A i \in 1..Len(parts) :
                 parts[i].unit # "TB" => parts[i].value < 1024
            /\ b = Big(0, 0) => parts = <<Part(0, "B")>>

\* C12 witness: a count above a petabyte printed with all five units.
C12_Witness ==
    /\ formatted.done
    /\ formatted.parts = <<Part(1500, "TB"), Part(54, "GB"), Part(1023, "MB"),
                           Part(1, "KB"), Part(1023, "B")>>

====
